---- MODULE Spec2Model ----
(***************************************************************************)
(* Model of the medical intake bot.                                        *)
(*                                                                         *)
(*  - medical_intake.py : MedicalIntakeProcessor, the nine step handlers,  *)
(*    send_appointment_email and save_data.                                *)
(*  - bot_twilio.py     : the driver, which registers all nine handlers    *)
(*    with the language-model service and cancels the pipeline task when   *)
(*    the participant leaves.                                              *)
(*  - bot_runner.py     : the webhook twilio_start_bot and                 *)
(*    create_daily_room.                                                   *)
(*                                                                         *)
(* A Python dict is a function whose DOMAIN is the set of keys present, so *)
(* a missing key (KeyError) and dict.get's default are modelled as the     *)
(* code computes them.                                                     *)
(***************************************************************************)
EXTENDS Integers, Sequences, FiniteSets, TLC

VARIABLES
    \* ---- one driver process (bot_twilio.py + medical_intake.py) ----
    patient_info,   \* self.patient_info
    tools,          \* the list last given to context.set_tools (tool names)
    results,        \* payloads passed to result_callback by the latest invocation
    log,            \* logger.error / logger.info lines of the latest invocation
    lastFn,         \* name of the handler invoked last ("none" before any)
    lastArgs,       \* the args dict it was invoked with
    raised,         \* TRUE iff the latest invocation ended by raising
    trace,          \* statements the latest invocation executed, in source order
    sendAttempts,   \* number of calls of self.sg.send so far
    lastMail,       \* the Mail handed to the latest self.sg.send
    environ,        \* os.environ of the driver process (after load_dotenv)
    cancelled,      \* task.cancel() has been called
    dialins,        \* on_dialin_ready events handled so far
    forwards,       \* calls of twilioclient.calls(callId).update so far, in order
    forwardLog,     \* logger.error lines of on_dialin_ready
    \* ---- history of the conversation (what the claims speak about) ----
    strays,         \* number of tool calls naming a handler outside `tools`
    executed,       \* handlers invoked so far
    hist,           \* <<fn, args>> of the calls so far, while they follow the script
    ordered,        \* TRUE iff every call so far was the scripted step with valid args
    \* ---- the bridge (bot_runner.py) ----
    roomCalls,      \* calls of daily_helpers["rest"].create_room so far
    tokenCalls,     \* calls of daily_helpers["rest"].get_token so far
    procs,          \* bot processes started by subprocess.Popen (their commands)
    requests,       \* number of webhook requests handled
    lastReq,        \* what the latest webhook request did and returned
    bridgeEnv,      \* os.environ of the bridge process (after load_dotenv)
    bridgeState,    \* "starting", "serving" (uvicorn.run) or "refused" (exception)
    \* ---- the driver processes the bridge has started ----
    drivers,        \* one entry per running bot process: its own MedicalIntakeProcessor
    actor           \* the entry whose handler was invoked last (0 before any)

intakeVars == <<patient_info, tools, results, log, lastFn, lastArgs, raised, trace, sendAttempts,
                lastMail, environ, cancelled, dialins, forwards, forwardLog,
                strays, executed, hist, ordered>>
bridgeVars == <<roomCalls, tokenCalls, procs, requests, lastReq, bridgeEnv, bridgeState,
                drivers, actor>>
vars == <<intakeVars, bridgeVars>>

-----------------------------------------------------------------------------
(* Bounds *)

\* tool calls the language model may make outside the advertised tool list
MaxStray == 1
\* webhook requests handled by the bridge
MaxRequests == 3
\* dial-in-ready events the transport raises in one bot process
MaxDialins == 2
\* calls in progress at the same time
MaxCalls == 2

-----------------------------------------------------------------------------
(* Python dict helpers *)

EmptyDict == <<>>

Has(d, k) == k \in DOMAIN d

\* d[k] = v
Put(d, k, v) == [x \in (DOMAIN d) \cup {k} |-> IF x = k THEN v ELSE d[x]]

\* d.get(k, default)
Get(d, k, default) == IF Has(d, k) THEN d[k] ELSE default

\* a dict with the single key k, or the empty dict when the key is not supplied
Opt(present, k, v) == IF present THEN (k :> v) ELSE EmptyDict

-----------------------------------------------------------------------------
(* The script *)

Steps == << "collect_name", "collect_birthday", "collect_insurance",
            "collect_referral", "collect_complaint", "collect_address",
            "collect_phone", "collect_email", "offer_appointments" >>

Registered == {Steps[i] : i \in 1..Len(Steps)}

-----------------------------------------------------------------------------
(* Arguments the language model may extract from the caller's speech.  No  *)
(* tool schema lists a "required" property, so every key may be missing.   *)

FirstNames == {"Ann", "Bob"}
LastNames == {"Lee"}
Birthdays == {"1990-01-01"}
PayerNames == {"Acme Health"}
PayerIds == {"P-1"}
Physicians == {"", "Dr. Roe"}
Complaints == {"cough"}
Addresses == {"1 Main St"}
Phones == {"555-0100"}
Emails == {"", "ann@example.com"}
Selections == {1, 2, 3}

NameArgs ==
    {Opt(pf, "first_name", f) @@ Opt(pl, "last_name", l) :
        pf \in BOOLEAN, f \in FirstNames, pl \in BOOLEAN, l \in LastNames}

BirthdayArgs == {Opt(p, "birthday", b) : p \in BOOLEAN, b \in Birthdays}

InsuranceArgs ==
    {Opt(pn, "payer_name", n) @@ Opt(pi, "payer_id", i) :
        pn \in BOOLEAN, n \in PayerNames, pi \in BOOLEAN, i \in PayerIds}

ReferralArgs ==
    {Opt(ph, "has_referral", h) @@ Opt(pp, "referring_physician", p) :
        ph \in BOOLEAN, h \in BOOLEAN, pp \in BOOLEAN, p \in Physicians}

ComplaintArgs == {Opt(p, "chief_complaint", c) : p \in BOOLEAN, c \in Complaints}

AddressArgs == {Opt(p, "address", a) : p \in BOOLEAN, a \in Addresses}

PhoneArgs == {Opt(p, "phone", n) : p \in BOOLEAN, n \in Phones}

EmailArgs == {Opt(p, "email", e) : p \in BOOLEAN, e \in Emails}

AppointmentArgs == {Opt(p, "selected_option", s) : p \in BOOLEAN, s \in Selections}

-----------------------------------------------------------------------------
(* Messages and callback payloads *)

SystemMessage(content, options) ==
    [role |-> "system", content |-> content, options |-> options]

\* result_callback(<list of messages>)
Payload(messages) == [is_none |-> FALSE, messages |-> messages]

\* result_callback(None)
NoneResult == [is_none |-> TRUE, messages |-> <<>>]

\* mutant: save_data returns without calling the callback
save_data_silent(callbacks) == callbacks

save_data(callbacks) == Append(callbacks, NoneResult)

\* the two slots named in collect_email's instruction
OfferedOptions ==
    << [doctor |-> "Dr. John Doe", date |-> "March 22, 2025", time |-> "4:00 PM"],
       [doctor |-> "Dr. John Doe", date |-> "March 22, 2025", time |-> "4:30 PM"] >>

\* mutant: one message for both answers
ReferralMessage_single(has_referral) ==
    "Thank you for providing the referral information. Now, what is your chief medical complaint?"

\* the message chosen by `if args['has_referral']`
ReferralMessage(has_referral) ==
    IF has_referral
    THEN "Thank you for providing the referral information. Now, what is your chief medical complaint?"
    ELSE "I understand you don't have a referral. That's fine. What is your chief medical complaint?"

Instruction(fn, args) ==
    CASE fn = "collect_name" ->
            SystemMessage("Thank them for providing their name. Now ask for their birthday.", <<>>)
      [] fn = "collect_birthday" ->
            SystemMessage("Thank them for providing their birthday. Now ask for their insurance information (payer name and ID).", <<>>)
      [] fn = "collect_insurance" ->
            SystemMessage("Now ask if they have a referral and to which physician.", <<>>)
      [] fn = "collect_referral" ->
            SystemMessage(ReferralMessage(args["has_referral"]), <<>>)
      [] fn = "collect_complaint" ->
            SystemMessage("Now ask for their address.", <<>>)
      [] fn = "collect_address" ->
            SystemMessage("Thank them for providing their address. Now ask for their phone number.", <<>>)
      [] fn = "collect_phone" ->
            SystemMessage("Thank them for providing their phone number. Now ask if they'd like to provide their email address (optional).", <<>>)
      [] fn = "collect_email" ->
            SystemMessage("Offer these two appointment options. Ask which option they prefer.", OfferedOptions)
      [] fn = "offer_appointments" ->
            SystemMessage("Thank them for their time and confirm their appointment details.", <<>>)

\* mutant: the successor is added to the tools already exposed
NextTools_extends(fn) ==
    LET i == CHOOSE k \in 1..Len(Steps) : Steps[k] = fn
    IN  IF i = Len(Steps) THEN <<>> ELSE Append(tools, Steps[i + 1])

\* the argument of the handler's context.set_tools call
NextTools(fn) ==
    CASE fn = "collect_name" -> <<"collect_birthday">>
      [] fn = "collect_birthday" -> <<"collect_insurance">>
      [] fn = "collect_insurance" -> <<"collect_referral">>
      [] fn = "collect_referral" -> <<"collect_complaint">>
      [] fn = "collect_complaint" -> <<"collect_address">>
      [] fn = "collect_address" -> <<"collect_phone">>
      [] fn = "collect_phone" -> <<"collect_email">>
      [] fn = "collect_email" -> <<"offer_appointments">>
      [] fn = "offer_appointments" -> <<>>

-----------------------------------------------------------------------------
(* How a handler invocation ends *)

\* the handler ran to its end: record written, tools replaced, two callbacks
Completes(fn, args, info, logged) ==
    /\ patient_info' = info
    /\ tools' = NextTools(fn)
    /\ results' = save_data(<<Payload(<<Instruction(fn, args)>>)>>)
    /\ log' = logged
    /\ raised' = FALSE

\* mutant: the exception leaves the handler after its context.set_tools call
Raises_after_set_tools(info, logged) ==
    /\ patient_info' = info
    /\ tools' = NextTools(lastFn')
    /\ results' = <<>>
    /\ log' = logged
    /\ raised' = TRUE

\* an exception left the handler before its context.set_tools call
Raises(info, logged) ==
    /\ patient_info' = info
    /\ tools' = tools
    /\ results' = <<>>
    /\ log' = logged
    /\ raised' = TRUE

NoEmail == UNCHANGED <<sendAttempts, lastMail>>

-----------------------------------------------------------------------------
(* Notification sender *)

\* `x or 'N/A'` in the template
OrNA(x) == IF x = "" THEN "N/A" ELSE x

\* mutant: tests only whether the variable is set (`is None`)
KeyMissing_unset_only(env) == ~Has(env, "SENDGRID_API_KEY")

\* not os.getenv('SENDGRID_API_KEY'): unset, or set to the empty string
KeyMissing(env) == ~Has(env, "SENDGRID_API_KEY") \/ env["SENDGRID_API_KEY"] = ""

\* every subscript the template reads is present (otherwise KeyError)
CanCompose(info) ==
    /\ Has(info, "first_name") /\ Has(info, "last_name")
    /\ Has(info, "appointment")
    /\ Has(info, "birthday")
    /\ Has(info, "insurance")
    /\ Has(info, "referral")
    /\ Has(info, "chief_complaint")
    /\ Has(info, "contact")
    /\ Has(info["contact"], "address")
    /\ Has(info["contact"], "phone")
    /\ Has(info["contact"], "email")

\* Mail(from_email, to_emails, subject, html_content) with the interpolated values
Mail(info) ==
    [ from_email |-> "abdul.elsaied2@gmail.com",
      to_emails |-> "abdul.elsaied2@gmail.com",
      subject |-> <<"New Appointment Scheduled", info["first_name"], info["last_name"]>>,
      patient |-> <<info["first_name"], info["last_name"]>>,
      birthday |-> info["birthday"],
      payer_name |-> info["insurance"]["payer_name"],
      payer_id |-> info["insurance"]["payer_id"],
      referral |-> IF info["referral"]["has_referral"] THEN "Yes" ELSE "No",
      referring_physician |-> OrNA(info["referral"]["referring_physician"]),
      chief_complaint |-> info["chief_complaint"],
      address |-> info["contact"]["address"],
      phone |-> info["contact"]["phone"],
      email |-> OrNA(info["contact"]["email"]),
      doctor |-> info["appointment"]["doctor"],
      date |-> info["appointment"]["date"],
      time |-> info["appointment"]["time"] ]

\* What send_appointment_email does with record `info`; sendOk is whether
\* self.sg.send returns normally.  Nothing escapes the try/except.
\*   submitted: self.sg.send was called;  mail: its argument;  logged: log lines
send_appointment_email(info, env, sendOk) ==
    IF KeyMissing(env)
    THEN [submitted |-> FALSE, mail |-> <<>>,
          logged |-> <<"SENDGRID_API_KEY is not set in environment variables">>]
    ELSE IF ~CanCompose(info)
    THEN [submitted |-> FALSE, mail |-> <<>>,
          logged |-> <<"Failed to send appointment email", "Traceback">>]
    ELSE IF sendOk
    THEN [submitted |-> TRUE, mail |-> <<Mail(info)>>,
          logged |-> <<"Appointment email sent">>]
    ELSE [submitted |-> TRUE, mail |-> <<Mail(info)>>,
          logged |-> <<"Failed to send appointment email", "Traceback">>]

-----------------------------------------------------------------------------
(* The nine step handlers of MedicalIntakeProcessor *)

collect_name(args) ==
    /\ NoEmail
    /\ IF ~Has(args, "first_name")
       THEN Raises(patient_info, <<>>)
       ELSE LET info1 == Put(patient_info, "first_name", args["first_name"]) IN
            IF ~Has(args, "last_name")
            THEN Raises(info1, <<>>)
            ELSE Completes("collect_name", args,
                           Put(info1, "last_name", args["last_name"]), <<>>)

collect_birthday(args) ==
    /\ NoEmail
    /\ IF ~Has(args, "birthday")
       THEN Raises(patient_info, <<>>)
       ELSE Completes("collect_birthday", args,
                      Put(patient_info, "birthday", args["birthday"]), <<>>)

\* mutant: payer_name is stored before payer_id is read
collect_insurance_partial(args) ==
    /\ NoEmail
    /\ IF ~Has(args, "payer_name")
       THEN Raises(patient_info, <<>>)
       ELSE LET info1 == Put(patient_info, "insurance", "payer_name" :> args["payer_name"]) IN
            IF ~Has(args, "payer_id")
            THEN Raises(info1, <<>>)
            ELSE Completes("collect_insurance", args,
                           Put(patient_info, "insurance",
                               [payer_name |-> args["payer_name"],
                                payer_id |-> args["payer_id"]]), <<>>)

collect_insurance(args) ==
    /\ NoEmail
    /\ IF ~Has(args, "payer_name") \/ ~Has(args, "payer_id")
       THEN Raises(patient_info, <<>>)
       ELSE Completes("collect_insurance", args,
                      Put(patient_info, "insurance",
                          [payer_name |-> args["payer_name"],
                           payer_id |-> args["payer_id"]]), <<>>)

\* the dict stored under 'referral'
ReferralEntry(args) ==
    [has_referral |-> args["has_referral"],
     referring_physician |-> Get(args, "referring_physician", "N/A")]

\* mutant: the except clause logs and returns
collect_referral_swallows(args) ==
    /\ NoEmail
    /\ IF ~Has(args, "has_referral")
       THEN /\ UNCHANGED <<patient_info, tools>>
            /\ results' = <<>>
            /\ log' = <<"Error in collect_referral">>
            /\ raised' = FALSE
       ELSE Completes("collect_referral", args,
                      Put(patient_info, "referral", ReferralEntry(args)), <<>>)

collect_referral(args) ==
    /\ NoEmail
    /\ IF ~Has(args, "has_referral")
       THEN Raises(patient_info, <<"Error in collect_referral">>)
       ELSE Completes("collect_referral", args,
                      Put(patient_info, "referral", ReferralEntry(args)), <<>>)

collect_complaint(args) ==
    /\ NoEmail
    /\ IF ~Has(args, "chief_complaint")
       THEN Raises(patient_info, <<>>)
       ELSE Completes("collect_complaint", args,
                      Put(patient_info, "chief_complaint", args["chief_complaint"]), <<>>)

collect_address(args) ==
    /\ NoEmail
    /\ LET info1 == Put(patient_info, "contact", Get(patient_info, "contact", EmptyDict)) IN
       IF ~Has(args, "address")
       THEN Raises(info1, <<>>)
       ELSE Completes("collect_address", args,
                      Put(info1, "contact", Put(info1["contact"], "address", args["address"])),
                      <<>>)

\* mutant: the phone step rebuilds the contact entry and loses the address
collect_phone_rebuilds_contact(args) ==
    /\ NoEmail
    /\ IF ~Has(args, "phone") \/ ~Has(patient_info, "contact")
       THEN Raises(patient_info, <<>>)
       ELSE Completes("collect_phone", args,
                      Put(patient_info, "contact", "phone" :> args["phone"]), <<>>)

collect_phone(args) ==
    /\ NoEmail
    /\ IF ~Has(args, "phone") \/ ~Has(patient_info, "contact")
       THEN Raises(patient_info, <<>>)
       ELSE Completes("collect_phone", args,
                      Put(patient_info, "contact",
                          Put(patient_info["contact"], "phone", args["phone"])), <<>>)

collect_email(args) ==
    /\ NoEmail
    /\ IF ~Has(patient_info, "contact")
       THEN Raises(patient_info, <<>>)
       ELSE Completes("collect_email", args,
                      Put(patient_info, "contact",
                          Put(patient_info["contact"], "email", Get(args, "email", ""))), <<>>)

\* mutant: the two slots swapped
AppointmentTime_swapped(selected_option) ==
    IF selected_option = 1 THEN "4:30 PM" ELSE "4:00 PM"

\* appointment_time
AppointmentTime(selected_option) ==
    IF selected_option = 1 THEN "4:00 PM" ELSE "4:30 PM"

\* the dict stored under 'appointment'
Appointment(selected_option) ==
    [doctor |-> "Dr. John Doe", date |-> "March 22, 2025",
     time |-> AppointmentTime(selected_option)]

\* mutant: a selection other than 1 or 2 is rejected with an exception
offer_appointments_validating(args, sendOk) ==
    IF ~Has(args, "selected_option") \/ args["selected_option"] \notin {1, 2}
    THEN Raises(patient_info, <<>>) /\ NoEmail
    ELSE LET info1 == Put(patient_info, "appointment", Appointment(args["selected_option"]))
             sent == send_appointment_email(info1, environ, sendOk)
         IN  /\ sendAttempts' = IF sent.submitted THEN sendAttempts + 1 ELSE sendAttempts
             /\ lastMail' = IF sent.submitted THEN sent.mail ELSE lastMail
             /\ Completes("offer_appointments", args, info1, sent.logged)

\* mutant: the email is sent before the appointment is written
offer_appointments_email_first(args, sendOk) ==
    IF ~Has(args, "selected_option")
    THEN Raises(patient_info, <<>>) /\ NoEmail
    ELSE LET info1 == Put(patient_info, "appointment", Appointment(args["selected_option"]))
             sent == send_appointment_email(patient_info, environ, sendOk)
         IN  /\ sendAttempts' = IF sent.submitted THEN sendAttempts + 1 ELSE sendAttempts
             /\ lastMail' = IF sent.submitted THEN sent.mail ELSE lastMail
             /\ Completes("offer_appointments", args, info1, sent.logged)

offer_appointments(args, sendOk) ==
    IF ~Has(args, "selected_option")
    THEN Raises(patient_info, <<>>) /\ NoEmail
    ELSE LET info1 == Put(patient_info, "appointment", Appointment(args["selected_option"]))
             sent == send_appointment_email(info1, environ, sendOk)
         IN  /\ sendAttempts' = IF sent.submitted THEN sendAttempts + 1 ELSE sendAttempts
             /\ lastMail' = IF sent.submitted THEN sent.mail ELSE lastMail
             /\ Completes("offer_appointments", args, info1, sent.logged)

-----------------------------------------------------------------------------
(* The statements of each handler in source order *)

\* args[key]: KeyError when the key is missing
ReadArg(key) == [op |-> "read_arg", key |-> key]
\* args.get(key, default)
GetArg(key) == [op |-> "get_arg", key |-> key]
\* self.patient_info['contact'] as the target of a subscript assignment
ReadContact == [op |-> "read_contact", key |-> "contact"]
\* self.patient_info.get('contact', {})
GetContact == [op |-> "get_contact", key |-> "contact"]
\* an assignment into the record
Write(key) == [op |-> "write", key |-> key]
SendEmail == [op |-> "send_appointment_email", key |-> ""]
SetTools == [op |-> "set_tools", key |-> ""]
ResultCallback == [op |-> "result_callback", key |-> ""]
SaveData == [op |-> "save_data", key |-> ""]
LogError == [op |-> "log_error", key |-> ""]
Raise == [op |-> "raise", key |-> ""]

Body(fn) ==
    CASE fn = "collect_name" ->
            << ReadArg("first_name"), Write("first_name"),
               ReadArg("last_name"), Write("last_name"),
               SetTools, ResultCallback, SaveData >>
      [] fn = "collect_birthday" ->
            << ReadArg("birthday"), Write("birthday"), SetTools, ResultCallback, SaveData >>
      [] fn = "collect_insurance" ->
            << ReadArg("payer_name"), ReadArg("payer_id"), Write("insurance"),
               SetTools, ResultCallback, SaveData >>
      [] fn = "collect_referral" ->
            << ReadArg("has_referral"), GetArg("referring_physician"), Write("referral"),
               SetTools, ReadArg("has_referral"), ResultCallback, SaveData >>
      [] fn = "collect_complaint" ->
            << ReadArg("chief_complaint"), Write("chief_complaint"),
               SetTools, ResultCallback, SaveData >>
      [] fn = "collect_address" ->
            << GetContact, Write("contact"),
               ReadArg("address"), ReadContact, Write("contact.address"),
               SetTools, ResultCallback, SaveData >>
      [] fn = "collect_phone" ->
            << ReadArg("phone"), ReadContact, Write("contact.phone"),
               SetTools, ResultCallback, SaveData >>
      [] fn = "collect_email" ->
            << GetArg("email"), ReadContact, Write("contact.email"),
               SetTools, ResultCallback, SaveData >>
      [] fn = "offer_appointments" ->
            << ReadArg("selected_option"), Write("appointment"), SendEmail,
               SetTools, ResultCallback, SaveData >>

\* the statement raises KeyError
Fails(st, args, hasContact) ==
    \/ st.op = "read_arg" /\ ~Has(args, st.key)
    \/ st.op = "read_contact" /\ ~hasContact

\* how an exception leaves the handler: collect_referral's except clause logs
\* it and re-raises
Propagate(fn) == IF fn = "collect_referral" THEN <<LogError, Raise>> ELSE <<Raise>>

RECURSIVE Run(_, _, _, _)
\* the statements of `body` executed up to the first that raises
Run(fn, body, args, hasContact) ==
    IF body = <<>> THEN <<>>
    ELSE LET st == Head(body) IN
         IF Fails(st, args, hasContact)
         THEN <<st>> \o Propagate(fn)
         ELSE <<st>> \o Run(fn, Tail(body), args, hasContact \/ st = Write("contact"))

\* the assignment into the record that the statement Write(key) stands for
WriteValue(key, args, info) ==
    CASE key = "first_name" -> Put(info, "first_name", args["first_name"])
      [] key = "last_name" -> Put(info, "last_name", args["last_name"])
      [] key = "birthday" -> Put(info, "birthday", args["birthday"])
      [] key = "insurance" ->
            Put(info, "insurance",
                [payer_name |-> args["payer_name"], payer_id |-> args["payer_id"]])
      [] key = "referral" -> Put(info, "referral", ReferralEntry(args))
      [] key = "chief_complaint" -> Put(info, "chief_complaint", args["chief_complaint"])
      [] key = "contact" -> Put(info, "contact", Get(info, "contact", EmptyDict))
      [] key = "contact.address" ->
            Put(info, "contact", Put(info["contact"], "address", args["address"]))
      [] key = "contact.phone" ->
            Put(info, "contact", Put(info["contact"], "phone", args["phone"]))
      [] key = "contact.email" ->
            Put(info, "contact", Put(info["contact"], "email", Get(args, "email", "")))
      [] key = "appointment" ->
            Put(info, "appointment", Appointment(args["selected_option"]))

RECURSIVE Written(_, _, _)
\* the record after the writes of the executed statements tr
Written(tr, args, info) ==
    IF tr = <<>> THEN info
    ELSE Written(Tail(tr), args,
                 IF Head(tr).op = "write" THEN WriteValue(Head(tr).key, args, info) ELSE info)

\* One handler invocation on the processor d of one bot process: the record,
\* the tools and the number of self.sg.send calls after it.
Step(fn, args, d, env, sendOk) ==
    LET tr == Run(fn, Body(fn), args, Has(d.patient_info, "contact"))
        info == Written(tr, args, d.patient_info)
        executes(st) == \E i \in 1..Len(tr) : tr[i] = st
        sent == send_appointment_email(info, env, sendOk)
    IN  [ cmd |-> d.cmd,
          patient_info |-> info,
          tools |-> IF executes(SetTools) THEN NextTools(fn) ELSE d.tools,
          sendAttempts |-> IF executes(SendEmail) /\ sent.submitted
                           THEN d.sendAttempts + 1 ELSE d.sendAttempts ]

-----------------------------------------------------------------------------
(* The driver: main() of bot_twilio.py *)

ToolNames == {tools[i] : i \in 1..Len(tools)}

\* arguments that carry every value the step asks for
ValidArgs(fn, args) ==
    CASE fn = "collect_name" -> Has(args, "first_name") /\ Has(args, "last_name")
      [] fn = "collect_birthday" -> Has(args, "birthday")
      [] fn = "collect_insurance" -> Has(args, "payer_name") /\ Has(args, "payer_id")
      [] fn = "collect_referral" ->
            /\ Has(args, "has_referral")
            /\ args["has_referral"] <=> Has(args, "referring_physician")
      [] fn = "collect_complaint" -> Has(args, "chief_complaint")
      [] fn = "collect_address" -> Has(args, "address")
      [] fn = "collect_phone" -> Has(args, "phone")
      [] fn = "collect_email" -> TRUE
      [] fn = "offer_appointments" ->
            Has(args, "selected_option") /\ args["selected_option"] \in {1, 2}

\* mutant: the cancellation is not honoured
PipelineRunning_always == TRUE

\* the pipeline task runs until on_participant_left cancels it
PipelineRunning == ~cancelled

\* The language-model service calls the handler registered under the name the
\* model's tool call carries.  All nine stay registered for the whole call, so
\* the name need not be in the advertised list; such calls are counted.
Dispatched(fn, args) ==
    /\ PipelineRunning
    /\ fn \in Registered
    /\ fn \in ToolNames \/ strays < MaxStray
    /\ strays' = IF fn \in ToolNames THEN strays ELSE strays + 1
    /\ lastFn' = fn
    /\ lastArgs' = args
    /\ trace' = Run(fn, Body(fn), args, Has(patient_info, "contact"))
    /\ executed' = executed \cup {fn}
    /\ LET scripted == /\ ordered
                       /\ Len(hist) < Len(Steps)
                       /\ fn = Steps[Len(hist) + 1]
                       /\ ValidArgs(fn, args)
       IN  /\ ordered' = scripted
           /\ hist' = IF scripted THEN Append(hist, <<fn, args>>) ELSE <<>>
    /\ UNCHANGED <<environ, cancelled, dialins, forwards, forwardLog, bridgeVars>>

call_collect_name ==
    \E args \in NameArgs : Dispatched("collect_name", args) /\ collect_name(args)

call_collect_birthday ==
    \E args \in BirthdayArgs : Dispatched("collect_birthday", args) /\ collect_birthday(args)

call_collect_insurance ==
    \E args \in InsuranceArgs : Dispatched("collect_insurance", args) /\ collect_insurance(args)

call_collect_referral ==
    \E args \in ReferralArgs : Dispatched("collect_referral", args) /\ collect_referral(args)

call_collect_complaint ==
    \E args \in ComplaintArgs : Dispatched("collect_complaint", args) /\ collect_complaint(args)

call_collect_address ==
    \E args \in AddressArgs : Dispatched("collect_address", args) /\ collect_address(args)

call_collect_phone ==
    \E args \in PhoneArgs : Dispatched("collect_phone", args) /\ collect_phone(args)

call_collect_email ==
    \E args \in EmailArgs : Dispatched("collect_email", args) /\ collect_email(args)

call_offer_appointments ==
    \E args \in AppointmentArgs, sendOk \in BOOLEAN :
        Dispatched("offer_appointments", args) /\ offer_appointments(args, sendOk)

\* the participant leaves: the driver cancels the pipeline task
on_participant_left ==
    /\ ~cancelled
    /\ cancelled' = TRUE
    /\ UNCHANGED <<dialins, forwards, forwardLog, patient_info, tools, results, log, lastFn, lastArgs, raised, trace, sendAttempts,
                   lastMail, environ, strays, executed, hist, ordered, bridgeVars>>

Environments ==
    { EmptyDict,
      "SENDGRID_API_KEY" :> "",
      "SENDGRID_API_KEY" :> "SG.test" }

\* MedicalIntakeProcessor(context) in a freshly started driver
InitIntake ==
    /\ patient_info = EmptyDict
    /\ tools = <<"collect_name">>
    /\ results = <<>>
    /\ log = <<>>
    /\ lastFn = "none"
    /\ lastArgs = EmptyDict
    /\ raised = FALSE
    /\ trace = <<>>
    /\ sendAttempts = 0
    /\ lastMail = <<>>
    /\ environ \in Environments
    /\ cancelled = FALSE
    /\ dialins = 0
    /\ forwards = <<>>
    /\ forwardLog = <<>>
    /\ strays = 0
    /\ executed = {}
    /\ hist = <<>>
    /\ ordered = TRUE

\* the variables the bridge checks before it serves
REQUIRED_ENV_VARS ==
    << "OPENAI_API_KEY", "DAILY_API_KEY", "ELEVENLABS_API_KEY",
       "ELEVENLABS_VOICE_ID", "TWILIO_ACCOUNT_SID", "TWILIO_AUTH_TOKEN" >>

\* every variable the bridge and the driver read with os.getenv
EnvNames ==
    {REQUIRED_ENV_VARS[i] : i \in 1..Len(REQUIRED_ENV_VARS)} \cup {"SENDGRID_API_KEY"}

\* an environment in which every variable is set
FullEnv == [n \in EnvNames |-> "secret"]

\* the bridge with its rest helper set up (lifespan), no request handled yet
InitRequests ==
    /\ roomCalls = 0
    /\ tokenCalls = 0
    /\ procs = <<>>
    /\ requests = 0
    /\ lastReq = <<>>
    /\ drivers = <<>>
    /\ actor = 0

InitBridge ==
    /\ InitRequests
    /\ bridgeEnv = FullEnv
    /\ bridgeState = "serving"

Init == InitIntake /\ InitBridge

Next ==
    \/ call_collect_name
    \/ call_collect_birthday
    \/ call_collect_insurance
    \/ call_collect_referral
    \/ call_collect_complaint
    \/ call_collect_address
    \/ call_collect_phone
    \/ call_collect_email
    \/ call_offer_appointments
    \/ on_participant_left

Spec == Init /\ [][Next]_vars

-----------------------------------------------------------------------------
(* The bridge: bot_runner.py *)

MAX_SESSION_TIME == 5 * 60

\* form data of a webhook request: CallSid may be missing or empty
Forms ==
    { EmptyDict,
      "CallSid" :> "",
      "CallSid" :> "CA1",
      "CallSid" :> "CA2" }

\* mutant: tests only whether the field is there (`callId is None`)
NoCallId_none_only(data) == ~Has(data, "CallSid")

\* `not callId` for callId = data.get("CallSid")
NoCallId(data) == ~Has(data, "CallSid") \/ data["CallSid"] = ""

\* outcomes of the room provider's calls and of the child process
RoomOutcomes == {"room", "none", "raises"}
TokenOutcomes == {"token", "empty", "raises"}
PopenOutcomes == {"started", "raises"}
\* process.poll(): <<>> is None (still running), <<c>> is exit code c
PollOutcomes == {<<>>, <<0>>, <<1>>}

\* the n-th room the provider creates
Room(n) == [url |-> <<"https://rooms/", n>>, sip_endpoint |-> <<"sip:", n>>]

\* the token the provider issues for a room
Token(url, n) == [room |-> url, exp |-> MAX_SESSION_TIME, serial |-> n]

\* mutant: returns the room and whatever get_token gave, without the
\* `if not room or not token` check
create_daily_room_unchecked(roomOutcome, tokenOutcome) ==
    IF roomOutcome \in {"raises", "none"}
    THEN [failed |-> TRUE, room_calls |-> 1, token_calls |-> 0, room |-> <<>>, token |-> <<>>]
    ELSE IF tokenOutcome = "raises"
    THEN [failed |-> TRUE, room_calls |-> 1, token_calls |-> 1, room |-> <<>>, token |-> <<>>]
    ELSE [failed |-> FALSE, room_calls |-> 1, token_calls |-> 1,
          room |-> <<Room(roomCalls + 1)>>,
          token |-> <<IF tokenOutcome = "empty" THEN ""
                      ELSE Token(Room(roomCalls + 1).url, tokenCalls + 1)>>]

\* create_daily_room: what it calls and how it ends.
\*   failed: an exception leaves it (HTTPException 500 or the provider's own)
create_daily_room(roomOutcome, tokenOutcome) ==
    IF roomOutcome = "raises"
    THEN [failed |-> TRUE, room_calls |-> 1, token_calls |-> 0, room |-> <<>>, token |-> <<>>]
    ELSE IF roomOutcome = "none"
    \* room.url on None raises before get_token is called
    THEN [failed |-> TRUE, room_calls |-> 1, token_calls |-> 0, room |-> <<>>, token |-> <<>>]
    ELSE IF tokenOutcome = "raises"
    THEN [failed |-> TRUE, room_calls |-> 1, token_calls |-> 1, room |-> <<>>, token |-> <<>>]
    ELSE IF tokenOutcome = "empty"
    \* `if not room or not token: raise HTTPException(500)`
    THEN [failed |-> TRUE, room_calls |-> 1, token_calls |-> 1, room |-> <<>>, token |-> <<>>]
    ELSE [failed |-> FALSE, room_calls |-> 1, token_calls |-> 1,
          room |-> <<Room(roomCalls + 1)>>,
          token |-> <<Token(Room(roomCalls + 1).url, tokenCalls + 1)>>]

\* mutant: the SIP address is not passed on
BotCmd_without_sip(room, token, callId) ==
    << "-u", room.url, "-t", token, "-i", callId >>

\* bot_cmd without the interpreter and script
BotCmd(room, token, callId) ==
    << "-u", room.url, "-t", token, "-i", callId, "-s", room.sip_endpoint >>

\* main() of a bot process started with command cmd, up to the pipeline run:
\* its own context and MedicalIntakeProcessor
NewDriver(cmd) ==
    [cmd |-> cmd, patient_info |-> EmptyDict, tools |-> <<"collect_name">>, sendAttempts |-> 0]

\* mutant: tests the exit code's truth value (`if process.poll():`)
ExitedAtCheck_truthy(pollOutcome) == pollOutcome # <<>> /\ pollOutcome[1] # 0

\* the check after time.sleep(1): process.poll() is not None
ExitedAtCheck(pollOutcome) == pollOutcome # <<>>

\* what a request with a CallSid does before it answers, in source order
RequestSteps(provision, popenOutcome) ==
    <<"CallSid", "create_room">>
        \o (IF provision.token_calls = 1 THEN <<"get_token">> ELSE <<>>)
        \o (IF provision.failed THEN <<>> ELSE <<"Popen">>)
        \o (IF ~provision.failed /\ popenOutcome = "started" THEN <<"poll">> ELSE <<>>)

\* the status the webhook answers with
Respond(data, provision, popenOutcome, pollOutcome) ==
    IF NoCallId(data) THEN "error"
    ELSE IF provision.failed THEN "error"
    ELSE IF popenOutcome = "raises" THEN "error"
    ELSE IF ExitedAtCheck(pollOutcome) THEN "error"
    ELSE "hold_music"

twilio_start_bot(data, roomOutcome, tokenOutcome, popenOutcome, pollOutcome) ==
    /\ bridgeState = "serving"
    /\ UNCHANGED <<bridgeEnv, bridgeState, actor>>
    /\ requests < MaxRequests
    /\ requests' = requests + 1
    /\ IF NoCallId(data)
       THEN /\ UNCHANGED <<roomCalls, tokenCalls, procs, drivers>>
            /\ lastReq' = [ data |-> data, room_calls |-> 0, token_calls |-> 0,
                            room_outcome |-> "skipped", token_outcome |-> "skipped",
                            steps |-> <<"CallSid">>,
                            popen_calls |-> 0, spawned |-> <<>>, polled |-> <<>>,
                            response |-> "error" ]
       ELSE LET provision == create_daily_room(roomOutcome, tokenOutcome)
                popen == IF provision.failed THEN 0 ELSE 1
                started == ~provision.failed /\ popenOutcome = "started"
                cmd == BotCmd(provision.room[1], provision.token[1], data["CallSid"])
            IN  /\ roomCalls' = roomCalls + provision.room_calls
                /\ tokenCalls' = tokenCalls + provision.token_calls
                /\ procs' = IF started THEN Append(procs, cmd) ELSE procs
                /\ drivers' = IF started /\ ~ExitedAtCheck(pollOutcome)
                               THEN Append(drivers, NewDriver(cmd)) ELSE drivers
                /\ lastReq' = [ data |-> data,
                                room_calls |-> provision.room_calls,
                                token_calls |-> provision.token_calls,
                                room_outcome |-> roomOutcome,
                                token_outcome |-> IF provision.token_calls = 0
                                                  THEN "skipped" ELSE tokenOutcome,
                                steps |-> RequestSteps(provision, popenOutcome),
                                popen_calls |-> popen,
                                spawned |-> IF started THEN <<cmd>> ELSE <<>>,
                                polled |-> IF started THEN <<pollOutcome>> ELSE <<>>,
                                response |-> Respond(data, provision, popenOutcome,
                                                     pollOutcome) ]
    /\ UNCHANGED intakeVars

webhook ==
    \E data \in Forms, roomOutcome \in RoomOutcomes, tokenOutcome \in TokenOutcomes,
       popenOutcome \in PopenOutcomes, pollOutcome \in PollOutcomes :
        twilio_start_bot(data, roomOutcome, tokenOutcome, popenOutcome, pollOutcome)

NextBridge == webhook

SpecBridge == Init /\ [][NextBridge]_vars

-----------------------------------------------------------------------------
(* Call forwarding in the driver: on_dialin_ready of bot_twilio.py *)

\* the -i and -s arguments main() was started with
callId == "CA1"
sipUri == Room(1).sip_endpoint

\* the update of the held call: the TwiML dials the SIP address
ForwardCall(ok) ==
    [call |-> callId, twiml |-> <<"Response", "Dial", "Sip", sipUri>>, ok |-> ok]

\* mutant: a failed update is tried once more
on_dialin_ready_retries(updateOk) ==
    /\ PipelineRunning
    /\ dialins < MaxDialins
    /\ dialins' = dialins + 1
    /\ forwards' = IF updateOk THEN Append(forwards, ForwardCall(TRUE))
                   ELSE forwards \o <<ForwardCall(FALSE), ForwardCall(TRUE)>>
    /\ forwardLog' = forwardLog
    /\ UNCHANGED <<patient_info, tools, results, log, lastFn, lastArgs, raised, trace,
                   sendAttempts, lastMail, environ, cancelled, strays, executed, hist,
                   ordered, bridgeVars>>

\* updateOk: twilioclient.calls(callId).update returns normally
on_dialin_ready(updateOk) ==
    /\ PipelineRunning
    /\ dialins < MaxDialins
    /\ dialins' = dialins + 1
    /\ forwards' = Append(forwards, ForwardCall(updateOk))
    /\ forwardLog' = IF updateOk THEN forwardLog
                     ELSE Append(forwardLog, "Failed to forward call")
    /\ UNCHANGED <<patient_info, tools, results, log, lastFn, lastArgs, raised, trace,
                   sendAttempts, lastMail, environ, cancelled, strays, executed, hist,
                   ordered, bridgeVars>>

dialin_ready == \E updateOk \in BOOLEAN : on_dialin_ready(updateOk)

\* a tool call naming the advertised tool
advertised_call ==
    /\ \/ call_collect_name
       \/ call_collect_birthday
       \/ call_collect_insurance
       \/ call_collect_referral
       \/ call_collect_complaint
       \/ call_collect_address
       \/ call_collect_phone
       \/ call_collect_email
       \/ call_offer_appointments
    /\ strays' = strays

NextDialin ==
    \/ dialin_ready
    \/ advertised_call
    \/ on_participant_left

SpecDialin == Init /\ [][NextDialin]_vars

-----------------------------------------------------------------------------
(* Several calls at once: the bridge and the bot processes it has started *)

CallerNames == << "Ann", "Bob", "Cy", "Di" >>

\* the first name the caller of the p-th call gives
CallerName(p) == CallerNames[((p - 1) % Len(CallerNames)) + 1]

\* what the language model extracts when the caller of call p answers step fn
Answers(p, fn) ==
    CASE fn = "collect_name" -> [first_name |-> CallerName(p), last_name |-> "Lee"]
      [] fn = "collect_birthday" -> [birthday |-> "1990-01-01"]
      [] fn = "collect_insurance" -> [payer_name |-> "Acme", payer_id |-> "P1"]
      [] fn = "collect_referral" -> [has_referral |-> FALSE]
      [] fn = "collect_complaint" -> [chief_complaint |-> "cough"]
      [] fn = "collect_address" -> [address |-> "1 Main St"]
      [] fn = "collect_phone" -> [phone |-> "555-0100"]
      [] fn = "collect_email" -> [email |-> "ann@example.com"]
      [] fn = "offer_appointments" -> [selected_option |-> ((p - 1) % 2) + 1]

\* mutant: the record is one object shared by every processor
drive_shared(p, fn, args, sendOk) ==
    /\ p \in DOMAIN drivers
    /\ \E i \in 1..Len(drivers[p].tools) : drivers[p].tools[i] = fn
    /\ actor' = p
    /\ LET d == Step(fn, args, drivers[p], environ, sendOk)
       IN  drivers' = [q \in DOMAIN drivers |->
                          IF q = p THEN d
                          ELSE [drivers[q] EXCEPT !.patient_info = d.patient_info]]
    /\ UNCHANGED <<intakeVars, roomCalls, tokenCalls, procs, requests, lastReq,
                   bridgeEnv, bridgeState>>

\* the language model of bot process p calls the advertised tool fn
drive(p, fn, args, sendOk) ==
    /\ p \in DOMAIN drivers
    /\ \E i \in 1..Len(drivers[p].tools) : drivers[p].tools[i] = fn
    /\ actor' = p
    /\ drivers' = [drivers EXCEPT ![p] = Step(fn, args, @, environ, sendOk)]
    /\ UNCHANGED <<intakeVars, roomCalls, tokenCalls, procs, requests, lastReq,
                   bridgeEnv, bridgeState>>

\* a step of one of the conversations: the caller answers, or nothing usable
\* is extracted
conversation_step ==
    \E p \in DOMAIN drivers, fn \in Registered, sendOk \in BOOLEAN :
        \E args \in {Answers(p, fn), EmptyDict} : drive(p, fn, args, sendOk)

\* a call comes in and its bot process starts
call_arrives ==
    /\ Len(drivers) < MaxCalls
    /\ \E data \in {f \in Forms : ~NoCallId(f)} :
            twilio_start_bot(data, "room", "token", "started", <<>>)

NextCalls == call_arrives \/ conversation_step

SpecCalls == Init /\ [][NextCalls]_vars

-----------------------------------------------------------------------------
(* Start of the bridge process: the __main__ block of bot_runner.py *)

\* environments the bridge may be started in: each variable unset, empty or set
StartEnvs ==
    UNION { [names -> {"", "secret"}] : names \in SUBSET EnvNames }

\* `env_var not in os.environ` for some required variable
MissingRequired(env) ==
    \E i \in 1..Len(REQUIRED_ENV_VARS) : ~Has(env, REQUIRED_ENV_VARS[i])

\* the check loop, then uvicorn.run
bridge_main ==
    /\ bridgeState = "starting"
    /\ bridgeState' = IF MissingRequired(bridgeEnv) THEN "refused" ELSE "serving"
    /\ UNCHANGED <<intakeVars, roomCalls, tokenCalls, procs, requests, lastReq, bridgeEnv,
                   drivers, actor>>

InitStartup ==
    /\ InitIntake
    /\ environ = EmptyDict
    /\ InitRequests
    /\ bridgeEnv \in StartEnvs
    /\ bridgeState = "starting"

NextStartup == bridge_main

SpecStartup == InitStartup /\ [][NextStartup]_vars

-----------------------------------------------------------------------------
(* Properties *)

\* args of the k-th scripted call
Submitted(k) == hist[k][2]

\* the record that holds exactly what the first k scripted calls submitted
SubmittedRecord(k) ==
    (IF k >= 1 THEN ("first_name" :> Submitted(1)["first_name"])
                    @@ ("last_name" :> Submitted(1)["last_name"])
               ELSE EmptyDict)
    @@ (IF k >= 2 THEN "birthday" :> Submitted(2)["birthday"] ELSE EmptyDict)
    @@ (IF k >= 3 THEN "insurance" :> [payer_name |-> Submitted(3)["payer_name"],
                                       payer_id |-> Submitted(3)["payer_id"]]
               ELSE EmptyDict)
    @@ (IF k >= 4 THEN "referral" :>
                        [has_referral |-> Submitted(4)["has_referral"],
                         referring_physician |->
                            IF Submitted(4)["has_referral"]
                            THEN Submitted(4)["referring_physician"]
                            ELSE "N/A"]
               ELSE EmptyDict)
    @@ (IF k >= 5 THEN "chief_complaint" :> Submitted(5)["chief_complaint"] ELSE EmptyDict)
    @@ (IF k >= 6 THEN "contact" :>
                        ( ("address" :> Submitted(6)["address"])
                          @@ (IF k >= 7 THEN "phone" :> Submitted(7)["phone"] ELSE EmptyDict)
                          @@ (IF k >= 8
                              THEN "email" :> (IF "email" \in DOMAIN Submitted(8)
                                               THEN Submitted(8)["email"] ELSE "")
                              ELSE EmptyDict) )
               ELSE EmptyDict)
    @@ (IF k >= 9 THEN "appointment" :>
                        [doctor |-> "Dr. John Doe", date |-> "March 22, 2025",
                         time |-> IF Submitted(9)["selected_option"] = 1
                                  THEN "4:00 PM" ELSE "4:30 PM"]
               ELSE EmptyDict)

\* C1: while the calls are the scripted steps in order, each with valid
\* arguments, on a fresh processor, the record after step k holds exactly the
\* values submitted in steps 1..k and the tool list is exactly step k+1's
\* callable (empty after offer_appointments).
C1_ScriptedRunAccumulates ==
    ordered =>
        /\ patient_info = SubmittedRecord(Len(hist))
        /\ tools = IF Len(hist) = Len(Steps) THEN <<>> ELSE <<Steps[Len(hist) + 1]>>

\* all nine steps have run in order
C1_Witness ==
    /\ ordered
    /\ Len(hist) = Len(Steps)
    /\ tools = <<>>
    /\ patient_info["contact"]["email"] = "ann@example.com"

\* steps whose field is present in the record
PresentSteps(info) ==
    {k \in 1..Len(Steps) :
        CASE k = 1 -> Has(info, "first_name") \/ Has(info, "last_name")
          [] k = 2 -> Has(info, "birthday")
          [] k = 3 -> Has(info, "insurance")
          [] k = 4 -> Has(info, "referral")
          [] k = 5 -> Has(info, "chief_complaint")
          [] k = 6 -> Has(info, "contact") /\ Has(info["contact"], "address")
          [] k = 7 -> Has(info, "contact") /\ Has(info["contact"], "phone")
          [] k = 8 -> Has(info, "contact") /\ Has(info["contact"], "email")
          [] k = 9 -> Has(info, "appointment")}

\* C2: in every reachable state the record's fields are populated strictly in
\* step order: a field of step k is present only if step k and every step
\* before it has been invoked.
C2_FieldsInStepOrder ==
    \A k \in PresentSteps(patient_info) : \A j \in 1..k : Steps[j] \in executed

\* the email credential is not configured: unset or empty
CredentialAbsent ==
    "SENDGRID_API_KEY" \notin DOMAIN environ \/ environ["SENDGRID_API_KEY"] = ""

FinalInstruction == "Thank them for their time and confirm their appointment details."

\* offer_appointments ran to its end in the latest invocation
ReachedTerminal ==
    /\ ~raised
    /\ tools = <<>>
    /\ Len(results) = 2
    /\ ~results[1].is_none
    /\ Len(results[1].messages) = 1
    /\ results[1].messages[1].role = "system"
    /\ results[1].messages[1].content = FinalInstruction
    /\ results[2].is_none

\* the message carries every field of the record
InterpolatesRecord(mail, info) ==
    /\ mail.patient = <<info["first_name"], info["last_name"]>>
    /\ mail.birthday = info["birthday"]
    /\ mail.payer_name = info["insurance"]["payer_name"]
    /\ mail.payer_id = info["insurance"]["payer_id"]
    /\ mail.referral = "Yes" <=> info["referral"]["has_referral"]
    /\ mail.referral = "No" <=> ~info["referral"]["has_referral"]
    /\ mail.referring_physician \in {info["referral"]["referring_physician"], "N/A"}
    /\ mail.referring_physician = "N/A" =>
            info["referral"]["referring_physician"] \in {"", "N/A"}
    /\ mail.chief_complaint = info["chief_complaint"]
    /\ mail.address = info["contact"]["address"]
    /\ mail.phone = info["contact"]["phone"]
    /\ mail.email \in {info["contact"]["email"], "N/A"}
    /\ mail.email = "N/A" => info["contact"]["email"] = ""
    /\ mail.doctor = info["appointment"]["doctor"]
    /\ mail.date = info["appointment"]["date"]
    /\ mail.time = info["appointment"]["time"]

\* C3: completing all nine steps (credential configured) makes exactly one
\* email-send attempt, made by offer_appointments and by no other step, with
\* every record field in the message; and over the whole conversation the
\* number of send attempts never exceeds one.
C3_ExactlyOneSend ==
    /\ sendAttempts <= 1
    /\ sendAttempts > 0 => "offer_appointments" \in executed
    /\ (ordered /\ Len(hist) = Len(Steps) /\ ~CredentialAbsent) =>
            /\ sendAttempts = 1
            /\ Len(lastMail) = 1
            /\ InterpolatesRecord(lastMail[1], patient_info)

\* The part of C3 that the code keeps: a scripted run of all nine steps with
\* the credential configured makes exactly one send attempt, in
\* offer_appointments, carrying every record field.
ScriptedRunSendsOnce ==
    /\ sendAttempts > 0 => "offer_appointments" \in executed
    /\ (ordered /\ Len(hist) = Len(Steps) /\ ~CredentialAbsent) =>
            /\ sendAttempts = 1
            /\ Len(lastMail) = 1
            /\ InterpolatesRecord(lastMail[1], patient_info)

\* C4: with SENDGRID_API_KEY not configured no send attempt is ever made, and
\* an offer_appointments call that carries a selection raises nothing, records
\* the appointment, clears the tool list, emits the final instruction and logs
\* the skip.
C4_NoCredentialNoSend ==
    CredentialAbsent =>
        /\ sendAttempts = 0
        /\ lastMail = <<>>
        /\ (lastFn = "offer_appointments" /\ Has(lastArgs, "selected_option")) =>
                /\ ReachedTerminal
                /\ Has(patient_info, "appointment")
                /\ patient_info["appointment"]["time"] \in {"4:00 PM", "4:30 PM"}
                /\ log = <<"SENDGRID_API_KEY is not set in environment variables">>

\* the ninth scripted step has run with SENDGRID_API_KEY set to the empty string
C4_Witness ==
    /\ Has(environ, "SENDGRID_API_KEY")
    /\ environ["SENDGRID_API_KEY"] = ""
    /\ ordered
    /\ Len(hist) = Len(Steps)
    /\ lastFn = "offer_appointments"
    /\ tools = <<>>
    /\ sendAttempts = 0

\* C5: a failure while composing or submitting the email never surfaces
\* (offer_appointments called with a selection always reaches the terminal
\* state), and the send is not retried: at most one submission per
\* conversation, also when it fails.
C5_EmailFailureContained ==
    /\ (lastFn = "offer_appointments" /\ Has(lastArgs, "selected_option")) =>
            ReachedTerminal /\ Has(patient_info, "appointment")
    /\ sendAttempts <= 1

\* The part of C5 that the code keeps: whatever send_appointment_email meets,
\* offer_appointments called with a selection reaches the terminal state, and
\* one invocation submits at most once.
EmailFailureNeverSurfaces ==
    (lastFn = "offer_appointments" /\ Has(lastArgs, "selected_option")) =>
        /\ ReachedTerminal
        /\ Has(patient_info, "appointment")
        /\ log \in { <<"SENDGRID_API_KEY is not set in environment variables">>,
                     <<"Failed to send appointment email", "Traceback">>,
                     <<"Appointment email sent">> }

\* C6: collect_referral called with has_referral=false stores the physician as
\* 'N/A' whatever else the arguments contain; called with has_referral=true
\* and the physician value it requires, it stores the supplied value verbatim.  Stated for conversations in which every
\* call named the advertised tool.
C6_ReferralStep ==
    (strays = 0 /\ lastFn = "collect_referral" /\ Has(lastArgs, "has_referral")) =>
        IF lastArgs["has_referral"]
        THEN Has(lastArgs, "referring_physician") =>
                  /\ ~raised
                  /\ patient_info["referral"]["referring_physician"]
                        = lastArgs["referring_physician"]
        ELSE /\ ~raised
             /\ patient_info["referral"]["referring_physician"] = "N/A"

\* the slot the appointment step is specified to store for a selection
Slot(selection) ==
    [doctor |-> "Dr. John Doe", date |-> "March 22, 2025",
     time |-> CASE selection = 1 -> "4:00 PM" [] selection = 2 -> "4:30 PM"]

\* C7: offer_appointments stores "4:00 PM" for selection 1 and "4:30 PM" for
\* selection 2, both with doctor 'Dr. John Doe' and date 'March 22, 2025';
\* and these are the slots collect_email's instruction offered as 1 and 2.
C7_AppointmentSlots ==
    /\ (lastFn = "offer_appointments" /\ Has(lastArgs, "selected_option")
            /\ lastArgs["selected_option"] \in {1, 2}) =>
            /\ ~raised
            /\ patient_info["appointment"] = Slot(lastArgs["selected_option"])
    /\ (lastFn = "collect_email" /\ ~raised) =>
            /\ Len(results[1].messages[1].options) = 2
            /\ \A i \in {1, 2} : results[1].messages[1].options[i] = Slot(i)

\* selection 2 has been stored
C7_Witness ==
    /\ lastFn = "offer_appointments"
    /\ Has(lastArgs, "selected_option")
    /\ lastArgs["selected_option"] = 2
    /\ patient_info["appointment"]["time"] = "4:30 PM"
    /\ "collect_email" \in executed

\* C8: if the participant leaves before offer_appointments has been invoked,
\* the record stays without an appointment, no handler runs after the
\* cancellation, and no email-send attempt is ever made.
C8_InterruptedCallSendsNothing ==
    /\ []((cancelled /\ "offer_appointments" \notin executed) =>
            /\ sendAttempts = 0
            /\ lastMail = <<>>
            /\ ~Has(patient_info, "appointment"))
    /\ [][cancelled => UNCHANGED intakeVars]_vars

\* the participant left after eight scripted steps, credential configured
C8_Witness ==
    /\ cancelled
    /\ ordered
    /\ Len(hist) = 8
    /\ ~CredentialAbsent
    /\ sendAttempts = 0

\* the request carries no call identifier: CallSid missing or empty
CallIdAbsent(data) == "CallSid" \notin DOMAIN data \/ data["CallSid"] = ""

\* C9: a webhook request without a call identifier (CallSid missing or empty)
\* returns an error response and never creates a room, never requests a token
\* and never spawns a bot process.
C9_NoCallIdRejected ==
    /\ []((requests > 0 /\ CallIdAbsent(lastReq.data)) =>
            /\ lastReq.response = "error"
            /\ lastReq.room_calls = 0
            /\ lastReq.token_calls = 0
            /\ lastReq.popen_calls = 0
            /\ lastReq.spawned = <<>>)
    /\ [][(requests' = requests + 1 /\ CallIdAbsent(lastReq'.data)) =>
            UNCHANGED <<roomCalls, tokenCalls, procs>>]_vars

\* a request with an empty CallSid has been answered, after one that spawned a bot
C9_Witness ==
    /\ requests > 1
    /\ Len(procs) > 0
    /\ "CallSid" \in DOMAIN lastReq.data
    /\ lastReq.data["CallSid"] = ""
    /\ lastReq.response = "error"

\* C10: a request whose spawned bot process has exited at the startup check
\* returns an error response, never hold music; and a request whose Popen call
\* raises returns an error response too.
C10_FailedStartIsError ==
    requests > 0 =>
        /\ (lastReq.polled # <<>> /\ lastReq.polled[1] # <<>>) =>
                lastReq.response = "error"
        /\ (lastReq.popen_calls = 1 /\ lastReq.spawned = <<>>) =>
                lastReq.response = "error"

\* the spawned process had exited with code 0 at the check
C10_Witness ==
    /\ requests > 0
    /\ lastReq.spawned # <<>>
    /\ lastReq.polled = << <<0>> >>
    /\ lastReq.response = "error"

\* the credentials the specification requires: audio-room provider, language
\* model, speech services, telephony account and email provider
RequiredCredentials ==
    { "DAILY_API_KEY", "OPENAI_API_KEY", "ELEVENLABS_API_KEY", "ELEVENLABS_VOICE_ID",
      "TWILIO_ACCOUNT_SID", "TWILIO_AUTH_TOKEN", "SENDGRID_API_KEY" }

\* C11: the bridge begins serving only if every required credential, the
\* email provider's included, is present in its environment.
C11_RefusesWithoutCredentials ==
    bridgeState = "serving" =>
        \A name \in RequiredCredentials : name \in DOMAIN bridgeEnv

\* The part of C11 that the code keeps: the bridge refuses to start when one of
\* the six variables of REQUIRED_ENV_VARS is absent.
RefusesWithoutListedVariables ==
    bridgeState = "serving" =>
        \A name \in RequiredCredentials \ {"SENDGRID_API_KEY"} : name \in DOMAIN bridgeEnv

\* the latest request asked for a room and got none, or asked for a token and
\* got none
ProvisioningFailed ==
    /\ lastReq # <<>>
    /\ \/ lastReq.room_outcome \in {"none", "raises"}
       \/ lastReq.token_outcome \in {"empty", "raises"}

\* the latest request obtained both a room and a token
Provisioned ==
    /\ lastReq # <<>>
    /\ lastReq.room_outcome = "room"
    /\ lastReq.token_outcome = "token"

\* C13: a request whose room or token provisioning failed is answered with an
\* error and starts no process; a request reaches the spawn step, adds a
\* process or answers with hold music only with both a room and a token.
C13_ProvisioningFailureRejected ==
    /\ [](ProvisioningFailed =>
            /\ lastReq.response = "error"
            /\ lastReq.popen_calls = 0
            /\ lastReq.spawned = <<>>)
    /\ []((lastReq # <<>> /\ (lastReq.popen_calls > 0 \/ lastReq.spawned # <<>>
                              \/ lastReq.response = "hold_music")) => Provisioned)
    /\ [][ProvisioningFailed' => procs' = procs]_vars
    /\ [][procs' # procs => Provisioned']_vars

\* a request whose token call returned nothing was rejected after an earlier
\* request had started a bot
C13_Witness ==
    /\ lastReq # <<>>
    /\ lastReq.room_outcome = "room"
    /\ lastReq.token_outcome = "empty"
    /\ lastReq.response = "error"
    /\ Len(procs) = 1

\* the tools a step hands over to: its successor's, none after the last step
Successor(fn) ==
    LET i == CHOOSE k \in 1..Len(Steps) : Steps[k] = fn
    IN  IF i < Len(Steps) THEN <<Steps[i + 1]>> ELSE <<>>

\* the step taken is a handler invocation (not the participant leaving)
Invoked == cancelled' = cancelled

\* C14: the callables exposed to the language model are at most one: exactly
\* collect_name after construction; a handler that completes replaces them by
\* exactly its successor's; only offer_appointments leaves none.
C14_OneActiveCallable ==
    /\ tools = <<"collect_name">>
    /\ [](Len(tools) <= 1)
    /\ [](executed = {} => tools = <<"collect_name">>)
    /\ []((lastFn \in Registered /\ ~raised) => tools = Successor(lastFn))
    /\ [][tools' # tools => (Invoked /\ ~raised' /\ tools' = Successor(lastFn'))]_vars
    /\ [][(tools' = <<>> /\ tools # <<>>) => lastFn' = "offer_appointments"]_vars
    /\ [](tools = <<>> => "offer_appointments" \in executed)

\* a handler in the middle of the script has replaced its predecessor's tools
C14_Witness ==
    /\ lastFn = "collect_complaint"
    /\ ~raised
    /\ tools = <<"collect_address">>
    /\ Cardinality(executed) >= 5

ReferralAcknowledged ==
    "Thank you for providing the referral information. Now, what is your chief medical complaint?"

NoReferralAcknowledged ==
    "I understand you don't have a referral. That's fine. What is your chief medical complaint?"

\* C15: collect_referral called with has_referral true or false makes the
\* same transition, to collect_complaint as the only active callable, and
\* emits one instruction whose text differs between the two answers.
C15_ReferralBranches ==
    /\ ReferralAcknowledged # NoReferralAcknowledged
    /\ (lastFn = "collect_referral" /\ Has(lastArgs, "has_referral")) =>
            /\ ~raised
            /\ tools = <<"collect_complaint">>
            /\ Has(patient_info, "referral")
            /\ patient_info["referral"]["has_referral"] = lastArgs["has_referral"]
            /\ Len(results) = 2
            /\ Len(results[1].messages) = 1
            /\ results[1].messages[1].content =
                    IF lastArgs["has_referral"] THEN ReferralAcknowledged
                    ELSE NoReferralAcknowledged

\* the caller said they have no referral, in the scripted order
C15_Witness ==
    /\ lastFn = "collect_referral"
    /\ Has(lastArgs, "has_referral")
    /\ ~lastArgs["has_referral"]
    /\ ordered
    /\ Len(hist) = 4
    /\ tools = <<"collect_complaint">>
    /\ results[1].messages[1].content = NoReferralAcknowledged

\* the latest invocation is offer_appointments with a selection that is
\* neither 1 nor 2
OutOfRangeSelection(fn, args) ==
    /\ fn = "offer_appointments"
    /\ Has(args, "selected_option")
    /\ args["selected_option"] \notin {1, 2}

\* the eight collecting steps ran in order with full arguments
CollectedAll == ordered /\ Len(hist) = Len(Steps) - 1

\* C16: offer_appointments called with a selection outside {1, 2} raises
\* nothing and completes as for a valid one: it stores the appointment with
\* time "4:30 PM", runs the email sender (which logs its outcome, and submits
\* one message when the credential is configured and the record complete),
\* clears the tools and emits the final instruction.
C16_SelectionNotValidated ==
    /\ [](OutOfRangeSelection(lastFn, lastArgs) =>
            /\ ~raised
            /\ patient_info["appointment"] =
                    [doctor |-> "Dr. John Doe", date |-> "March 22, 2025", time |-> "4:30 PM"]
            /\ ReachedTerminal
            /\ log \in { <<"Appointment email sent">>,
                         <<"Failed to send appointment email", "Traceback">>,
                         <<"SENDGRID_API_KEY is not set in environment variables">> })
    /\ [][(Invoked /\ OutOfRangeSelection(lastFn', lastArgs') /\ CollectedAll
                /\ ~CredentialAbsent) =>
            /\ sendAttempts' = sendAttempts + 1
            /\ Len(lastMail') = 1
            /\ lastMail'[1].time = "4:30 PM"]_vars

\* selection 3 was taken after the eight collecting steps and the email sent
C16_Witness ==
    /\ OutOfRangeSelection(lastFn, lastArgs)
    /\ lastArgs["selected_option"] = 3
    /\ "collect_email" \in executed
    /\ tools = <<>>
    /\ sendAttempts = 1
    /\ lastMail[1].time = "4:30 PM"
    /\ patient_info["appointment"]["time"] = "4:30 PM"

\* the invocation of fn with args on record info hits an exception: an
\* argument the handler subscripts is missing, or the phone or email step
\* finds no contact entry
MustRaise(fn, args, info) ==
    CASE fn = "collect_name" -> ~Has(args, "first_name") \/ ~Has(args, "last_name")
      [] fn = "collect_birthday" -> ~Has(args, "birthday")
      [] fn = "collect_insurance" -> ~Has(args, "payer_name") \/ ~Has(args, "payer_id")
      [] fn = "collect_referral" -> ~Has(args, "has_referral")
      [] fn = "collect_complaint" -> ~Has(args, "chief_complaint")
      [] fn = "collect_address" -> ~Has(args, "address")
      [] fn = "collect_phone" -> ~Has(args, "phone") \/ ~Has(info, "contact")
      [] fn = "collect_email" -> ~Has(info, "contact")
      [] fn = "offer_appointments" -> ~Has(args, "selected_option")
      [] OTHER -> FALSE

\* C18: an exception inside a handler propagates to the driver, also from
\* collect_referral, which logs it first; the invocation does not advance the
\* conversation and the step is not run again by the handler.
C18_ExceptionsPropagate ==
    /\ [][(Invoked /\ MustRaise(lastFn', lastArgs', patient_info)) =>
            /\ raised'
            /\ tools' = tools
            /\ executed' = executed \cup {lastFn'}
            /\ log' = IF lastFn' = "collect_referral"
                      THEN <<"Error in collect_referral">> ELSE <<>>]_vars
    /\ [](raised => (lastFn \in Registered /\ results = <<>>))

\* collect_referral, advertised after three completed steps, raised and logged
C18_Witness ==
    /\ lastFn = "collect_referral"
    /\ raised
    /\ log = <<"Error in collect_referral">>
    /\ tools = <<"collect_referral">>
    /\ Has(patient_info, "insurance")

\* positions in the latest invocation's trace of the statements with operation op
At(op) == {i \in 1..Len(trace) : trace[i].op = op}

\* The trace agrees with the handler's effect: it ends in a raise exactly when
\* the invocation raised, holds set_tools exactly when it completed, one trace
\* event per callback received, the email sender only in offer_appointments,
\* and the record changes only in invocations that execute a write.
TraceAgrees ==
    /\ [](lastFn = "none" <=> trace = <<>>)
    /\ [](lastFn \in Registered =>
            /\ raised <=> trace[Len(trace)] = Raise
            /\ ~raised <=> At("set_tools") # {}
            /\ Cardinality(At("result_callback") \cup At("save_data")) = Len(results)
            /\ At("send_appointment_email") # {} <=>
                    (lastFn = "offer_appointments" /\ ~raised)
            /\ At("log_error") # {} <=> log = <<"Error in collect_referral">>)
    /\ [][patient_info' # patient_info => At("write")' # {}]_vars
    /\ [][(Invoked /\ raised' /\ At("write")' = {}) => patient_info' = patient_info]_vars

\* C17: a handler that completes calls the result callback exactly twice:
\* first with a list of one system-role message (no other content), then,
\* through save_data, with None; both after its record writes and its
\* set_tools call.
C17_OneInstructionThenNone ==
    (lastFn \in Registered /\ ~raised) =>
        /\ Len(results) = 2
        /\ ~results[1].is_none
        /\ Len(results[1].messages) = 1
        /\ results[1].messages[1].role = "system"
        /\ results[2].is_none
        /\ results[2].messages = <<>>
        /\ At("result_callback") = {Len(trace) - 1}
        /\ At("save_data") = {Len(trace)}
        /\ At("write") # {}
        /\ Cardinality(At("set_tools")) = 1
        /\ \A i \in At("write") \cup At("set_tools") : i < Len(trace) - 1

\* the last collecting step completed in the scripted order
C17_Witness ==
    /\ lastFn = "collect_email"
    /\ ~raised
    /\ ordered
    /\ Len(hist) = 8
    /\ Len(results) = 2
    /\ results[2].is_none
    /\ trace[Len(trace)] = SaveData

\* positions of the argument reads and record writes in the trace
ReadsAndWrites == At("read_arg") \cup At("get_arg") \cup At("write")

\* C19 as stated: a handler that raises leaves the tools unchanged and emits no
\* instruction, and every argument read and record write of a handler
\* precedes its set_tools call.
C19_EveryReadPrecedesSetTools ==
    /\ [][(Invoked /\ raised') => (tools' = tools /\ results' = <<>>)]_vars
    /\ [](\A s \in At("set_tools") : \A i \in ReadsAndWrites : i < s)

\* C19, amended: a handler that raises leaves the tools unchanged and emits no
\* instruction; it has then executed neither set_tools nor a callback.  Every
\* record write precedes set_tools, and an argument read after set_tools
\* (collect_referral's second args['has_referral']) repeats a read that
\* succeeded before it, so it cannot raise.
C19_FailedStepKeepsTools ==
    /\ [][(Invoked /\ raised') => (tools' = tools /\ results' = <<>>)]_vars
    /\ [](raised => (At("set_tools") = {} /\ At("result_callback") = {}
                     /\ At("save_data") = {}))
    /\ [](\A s \in At("set_tools") :
            /\ \A i \in At("write") : i < s
            /\ \A i \in At("read_arg") \cup At("get_arg") :
                    i > s => \E j \in At("read_arg") : j < s /\ trace[j] = trace[i])

\* collect_phone raised with a phone number but before any contact entry
C19_Witness ==
    /\ lastFn = "collect_phone"
    /\ raised
    /\ Has(lastArgs, "phone")
    /\ ~Has(patient_info, "contact")
    /\ tools = <<"collect_name">>
    /\ results = <<>>

\* C20 as stated: a handler that raises leaves the record exactly as it was.
C20_NoPartialWrite ==
    [][(Invoked /\ raised') => patient_info' = patient_info]_vars

\* C20, amended: a handler that raises leaves the record as it was, with two
\* exceptions: collect_name called with first_name but without last_name has
\* stored first_name, and collect_address called without address has created
\* an empty contact entry when there was none.
C20_PartialWritesOnlyInNameAndAddress ==
    [][(Invoked /\ raised') =>
        patient_info' =
            CASE lastFn' = "collect_name" /\ Has(lastArgs', "first_name") ->
                    Put(patient_info, "first_name", lastArgs'["first_name"])
              [] lastFn' = "collect_address" /\ ~Has(patient_info, "contact") ->
                    Put(patient_info, "contact", EmptyDict)
              [] OTHER -> patient_info]_vars

\* collect_name raised after storing first_name; no last_name was ever stored
C20_Witness ==
    /\ lastFn = "collect_name"
    /\ raised
    /\ Has(lastArgs, "first_name")
    /\ Has(patient_info, "first_name")
    /\ patient_info["first_name"] = lastArgs["first_name"]
    /\ ~Has(patient_info, "last_name")

\* The handler actions and the statement-by-statement execution agree: every
\* invocation leaves the record, the tools and the send count that Step
\* computes from the state before it.
HandlersAgreeWithStep ==
    [][Invoked =>
        \E sendOk \in BOOLEAN :
            LET d == Step(lastFn', lastArgs',
                          [cmd |-> <<>>, patient_info |-> patient_info, tools |-> tools,
                           sendAttempts |-> sendAttempts], environ, sendOk)
            IN  /\ patient_info' = d.patient_info
                /\ tools' = d.tools
                /\ sendAttempts' = d.sendAttempts]_vars

\* the conversation state of a bot process
Conversation(d) == <<d.patient_info, d.tools, d.sendAttempts>>

\* C12: a webhook answered with hold music has started exactly one process
\* with a record and tools of its own (empty record, collect_name, no send),
\* leaving the running ones as they were; and a step of one call leaves the
\* record, the tools and the send count of every other call unchanged, so
\* that each record only ever holds its own caller's answers.
C12_CallsShareNoState ==
    /\ [][(requests' = requests + 1 /\ lastReq'.response = "hold_music") =>
            /\ Len(procs') = Len(procs) + 1
            /\ Len(drivers') = Len(drivers) + 1
            /\ drivers'[Len(drivers')].cmd = procs'[Len(procs')]
            /\ Conversation(drivers'[Len(drivers')]) = <<EmptyDict, <<"collect_name">>, 0>>
            /\ \A q \in DOMAIN drivers : drivers'[q] = drivers[q]]_vars
    /\ [][requests' = requests =>
            /\ DOMAIN drivers' = DOMAIN drivers
            /\ \A q \in DOMAIN drivers :
                    q # actor' => Conversation(drivers'[q]) = Conversation(drivers[q])]_vars
    /\ [](\A q \in DOMAIN drivers :
            /\ Has(drivers[q].patient_info, "first_name") =>
                    drivers[q].patient_info["first_name"] = CallerName(q)
            /\ drivers[q].sendAttempts > 0 => drivers[q].tools = <<>>)

\* two calls in progress at different steps: the first has finished and sent
\* its email, the second has only given its name
C12_Witness ==
    /\ Len(drivers) = 2
    /\ drivers[1].tools = <<>>
    /\ drivers[1].sendAttempts = 1
    /\ drivers[1].patient_info["first_name"] = "Ann"
    /\ drivers[2].tools = <<"collect_birthday">>
    /\ drivers[2].patient_info["first_name"] = "Bob"
    /\ drivers[2].sendAttempts = 0
    /\ actor = 1

\* offer_appointments has completed and no tool is exposed any more
Terminal == tools = <<>> /\ "offer_appointments" \in executed

\* C21: once offer_appointments has completed and the tools are empty, no
\* later event changes the record, exposes a tool again or makes another
\* email-send attempt.
C21_TerminalAbsorbing ==
    [][Terminal =>
        /\ patient_info' = patient_info
        /\ tools' = <<>>
        /\ sendAttempts' = sendAttempts]_vars

\* The part of C21 that the code keeps: in the terminal state no tool is
\* advertised, so only a tool call naming a handler outside the advertised
\* list can change anything.
TerminalAbsorbingWithoutStrayCalls ==
    [][(Terminal /\ strays' = strays) =>
        /\ patient_info' = patient_info
        /\ tools' = <<>>
        /\ sendAttempts' = sendAttempts]_vars

\* what the email sender logs when it has sent, skipped or failed
SenderOutcomes ==
    { <<"Appointment email sent">>,
      <<"SENDGRID_API_KEY is not set in environment variables">>,
      <<"Failed to send appointment email", "Traceback">> }

\* C22: offer_appointments writes the appointment, then runs the email
\* sender, and only after the sender has returned (sent, skipped or failed)
\* clears the tools and emits the final instruction.  So whenever the tools
\* are empty the appointment is recorded and the sender has returned, and
\* whenever an email is submitted the record holds the appointment the
\* message carries.
C22_FinalStepOrder ==
    /\ []((lastFn = "offer_appointments" /\ ~raised) =>
            \E w \in At("write"), e \in At("send_appointment_email"),
               t \in At("set_tools"), c \in At("result_callback") :
                /\ trace[w] = [op |-> "write", key |-> "appointment"]
                /\ w < e /\ e < t /\ t < c)
    /\ [](tools = <<>> =>
            (Has(patient_info, "appointment") /\ "offer_appointments" \in executed))
    /\ [][(tools' = <<>> /\ tools # <<>>) => log' \in SenderOutcomes]_vars
    /\ [][sendAttempts' # sendAttempts =>
            /\ sendAttempts' = sendAttempts + 1
            /\ lastFn' = "offer_appointments"
            /\ tools' = <<>>
            /\ Has(patient_info', "appointment")
            /\ Len(lastMail') = 1
            /\ lastMail'[1].time = patient_info'["appointment"]["time"]]_vars
    /\ [](sendAttempts > 0 => Has(patient_info, "appointment"))

\* the final step has sent the email of a complete record
C22_Witness ==
    /\ lastFn = "offer_appointments"
    /\ ~raised
    /\ tools = <<>>
    /\ sendAttempts = 1
    /\ log = <<"Appointment email sent">>
    /\ lastMail[1].time = patient_info["appointment"]["time"]
    /\ trace[2] = [op |-> "write", key |-> "appointment"]
    /\ trace[3].op = "send_appointment_email"

\* the latest request went through every stage, in source order: a call
\* identifier, a room and a token, one process started with exactly these,
\* and the process still running at the startup check
WentThrough ==
    /\ lastReq # <<>>
    /\ "CallSid" \in DOMAIN lastReq.data
    /\ lastReq.data["CallSid"] # ""
    /\ lastReq.room_outcome = "room"
    /\ lastReq.token_outcome = "token"
    /\ lastReq.steps = <<"CallSid", "create_room", "get_token", "Popen", "poll">>
    /\ lastReq.room_calls = 1
    /\ lastReq.token_calls = 1
    /\ lastReq.popen_calls = 1
    /\ lastReq.spawned =
            << << "-u", Room(roomCalls).url,
                  "-t", Token(Room(roomCalls).url, tokenCalls),
                  "-i", lastReq.data["CallSid"],
                  "-s", Room(roomCalls).sip_endpoint >> >>
    /\ procs # <<>>
    /\ procs[Len(procs)] = lastReq.spawned[1]
    /\ lastReq.polled = << <<>> >>

\* C23: a request is answered with hold music exactly if, in this order, it
\* carried a call identifier, got a room and a token, started one process
\* with that room URL, token, call identifier and SIP address, and found the
\* process running at the startup check; every other request is answered with
\* an error, and every request with one of the two.
C23_HoldMusicOnlyAfterAllStages ==
    lastReq # <<>> =>
        /\ lastReq.response \in {"hold_music", "error"}
        /\ lastReq.response = "hold_music" <=> WentThrough

\* the second request of the bridge went through every stage, after a first
\* one whose process had exited at the check
C23_Witness ==
    /\ requests = 2
    /\ Len(procs) = 2
    /\ Len(drivers) = 1
    /\ WentThrough
    /\ lastReq.response = "hold_music"
    /\ lastReq.spawned[1][2] = Room(2).url

\* the attempts that failed
FailedForwards == {i \in 1..Len(forwards) : ~forwards[i].ok}

\* C24: each dial-in-ready event makes exactly one attempt to redirect the
\* held call, named by its call identifier, to the room's SIP address; a
\* failed attempt is logged and goes no further: it is not repeated, the
\* pipeline task is not cancelled, and the record and the tools stay as they
\* were.
C24_ForwardOncePerEvent ==
    /\ [](Len(forwards) = dialins)
    /\ [](Cardinality(FailedForwards) = Len(forwardLog))
    /\ [](\A i \in 1..Len(forwards) :
            /\ forwards[i].call = "CA1"
            /\ forwards[i].twiml = <<"Response", "Dial", "Sip", Room(1).sip_endpoint>>)
    /\ [][dialins' # dialins =>
            /\ dialins' = dialins + 1
            /\ Len(forwards') = Len(forwards) + 1
            /\ forwardLog' = IF forwards'[Len(forwards')].ok THEN forwardLog
                             ELSE Append(forwardLog, "Failed to forward call")
            /\ cancelled' = cancelled
            /\ patient_info' = patient_info
            /\ tools' = tools
            /\ raised' = raised]_vars

\* a failed attempt and then a successful one, in the middle of the intake
C24_Witness ==
    /\ dialins = 2
    /\ ~forwards[1].ok
    /\ forwards[2].ok
    /\ forwardLog = <<"Failed to forward call">>
    /\ ~cancelled
    /\ tools = <<"collect_insurance">>
    /\ Has(patient_info, "birthday")

====
